---------------------------- MODULE Spec2Model ----------------------------
(***************************************************************************)
(* Model of the Dental_Dashboard synthetic data generators:                *)
(*   src/generate-fin-data.js  monthly financial records per location,     *)
(*                             followed by the comparative (MoM/YoY) pass  *)
(*   src/generate-pat-data.js  patients, visits and procedure rows         *)
(*                                                                         *)
(* Conventions.                                                            *)
(*  - A JavaScript Date is its UTC instant in whole hours since            *)
(*    1970-01-01T00:00Z.  Local-time getters and setters (getFullYear,     *)
(*    getMonth, setDate, setMonth, new Date(y, m, d)) go through the       *)
(*    environment's standard UTC offset tz (whole hours, east positive,    *)
(*    fixed during a run) and, in Pacific time, through daylight saving    *)
(*    time; toISOString and new Date("YYYY-MM-DD") are UTC.                *)
(*  - A formatted date "YYYY-MM-DD" is the tuple <<y, m, d>>; the empty    *)
(*    string of a date or id field is the empty tuple << >>.               *)
(*  - Math.random() returns n / RandDen for an integer n in 0..RandDen-1.  *)
(*  - Fractions of the source are kept exact as integers over a fixed      *)
(*    denominator (hundredths for randomFloatBetween, ten-thousandths for  *)
(*    toFixed(4)); Math.round is floor(x + 1/2).  IEEE rounding error of   *)
(*    the double arithmetic is not modelled.                               *)
(***************************************************************************)
EXTENDS Integers, Sequences, FiniteSets, TLC

VARIABLES
    tz,             \* standard UTC offset of the environment, in hours
    rng,            \* hidden state of Math.random
    fpc,            \* position in generateFinancialDataset
    locIdx,         \* index of `location` in the for-of loop over locations
    currentDate,    \* the Date object currentDate
    financialData,  \* the array financialData
    cmpIdx,         \* the index i of the comparative pass (1-based)
    draws,          \* Math.random by call site: the first value of each site
    ppc,            \* position in the main flow of generate-pat-data.js
    visitIdx,       \* the index i of the visit loop
    patients,       \* the array returned by generatePatients
    appointments    \* the array appointments of generateAppointmentData

finVars == <<rng, fpc, locIdx, currentDate, financialData, cmpIdx>>
patVars == <<draws, ppc, visitIdx, patients, appointments>>
vars == <<tz, rng, fpc, locIdx, currentDate, financialData, cmpIdx, draws, ppc, visitIdx, patients, appointments>>

---------------------------------------------------------------------------
(* Bounds of the model *)

\* Math.random() is n / RandDen, n in 0..RandDen-1
RandDen == 32768

\* seeds of Math.random tried by the dataset specification: 0..MaxSeed
MaxSeed == 2

\* standard UTC offsets of the environment: Portland (Pacific time, which
\* observes daylight saving time), UTC, Tokyo
TzOffsets == {0 - 8, 0, 9}

---------------------------------------------------------------------------
(* Arithmetic helpers *)

Max(a, b) == IF a >= b THEN a ELSE b

Min(a, b) == IF a <= b THEN a ELSE b

Abs(a) == IF a >= 0 THEN a ELSE 0 - a

\* Math.round(num / den) for num >= 0, den > 0: floor(num/den + 1/2)
RoundDiv(num, den) == (num \div den) + (IF 2 * (num % den) >= den THEN 1 ELSE 0)

\* one step of the long division of a * b by c: the next base-32 digit d of b
MulStep(qr, a, d, c) ==
    LET Divided(q, t) == <<q * 32 + (t \div c), t % c>>
    IN Divided(qr[1], qr[2] * 32 + a * d)

\* <<quotient, remainder>> of a * b by c without forming a * b
\* (a >= 0, 0 <= b < 2^25, c > 0, and 32 * c + 31 * a stays below 2^31)
MulQR(a, b, c) ==
    MulStep(MulStep(MulStep(MulStep(MulStep(<<0, 0>>,
        a, (b \div 1048576) % 32, c),
        a, (b \div 32768) % 32, c),
        a, (b \div 1024) % 32, c),
        a, (b \div 32) % 32, c),
        a, b % 32, c)

\* Math.round(a * b / c)
MulRoundDiv(a, b, c) ==
    LET Rounded(qr) == qr[1] + (IF 2 * qr[2] >= c THEN 1 ELSE 0)
    IN Rounded(MulQR(a, b, c))

RECURSIVE SumSeq(_)
SumSeq(s) == IF s = << >> THEN 0 ELSE Head(s) + SumSeq(Tail(s))

---------------------------------------------------------------------------
(* Calendar: the proleptic Gregorian calendar of the JavaScript Date *)

\* days since 1970-01-01 of the civil date y-m-d (d may overflow the month)
DaysFromCivil(y, m, d) ==
    LET OfYearOfEra(era, yoe, doy) ==
            era * 146097 + yoe * 365 + (yoe \div 4) - (yoe \div 100) + doy - 719468
        OfEra(yy, era, mp) ==
            OfYearOfEra(era, yy - era * 400, ((153 * mp + 2) \div 5) + d - 1)
        OfYear(yy, mp) == OfEra(yy, yy \div 400, mp)
    IN OfYear(IF m <= 2 THEN y - 1 ELSE y, IF m > 2 THEN m - 3 ELSE m + 9)

\* the civil date <<y, m, d>> of a day number
CivilFromDays(z0) ==
    LET OfMonth(era, yoe, doy, mp) ==
            << yoe + era * 400 + (IF mp >= 10 THEN 1 ELSE 0),
               IF mp < 10 THEN mp + 3 ELSE mp - 9,
               doy - ((153 * mp + 2) \div 5) + 1 >>
        OfDayOfYear(era, yoe, doy) == OfMonth(era, yoe, doy, (5 * doy + 2) \div 153)
        OfYearOfEra(era, doe, yoe) ==
            OfDayOfYear(era, yoe, doe - (365 * yoe + (yoe \div 4) - (yoe \div 100)))
        OfDayOfEra(era, doe) ==
            OfYearOfEra(era, doe,
                (doe - (doe \div 1460) + (doe \div 36524) - (doe \div 146096)) \div 365)
        OfEra(z, era) == OfDayOfEra(era, z - era * 146097)
        OfShifted(z) == OfEra(z, z \div 146097)
    IN OfShifted(z0 + 719468)

\* new Date("YYYY-MM-DD"): midnight UTC of that date
ParseDate(s) == DaysFromCivil(s[1], s[2], s[3]) * 24

\* the day of the week of a day number, 0 being Sunday
DayOfWeek(days) == (days + 4) % 7

\* the first Sunday on or after a day number
SundayFrom(days) == days + ((7 - DayOfWeek(days)) % 7)

\* daylight saving time of Pacific time in year y begins at 02:00 PST of
\* the second Sunday of March, 10:00 UTC
DstStart(y) == (SundayFrom(DaysFromCivil(y, 3, 1)) + 7) * 24 + 10

\* and ends at 02:00 PDT of the first Sunday of November, 09:00 UTC
DstEnd(y) == SundayFrom(DaysFromCivil(y, 11, 1)) * 24 + 9

\* the environment observes daylight saving time
ObservesDst == tz = 0 - 8

\* daylight saving time is in force at the instant date
InDst(date) ==
    LET OfYear(y) == date >= DstStart(y) /\ date < DstEnd(y)
    IN ObservesDst /\ OfYear(CivilFromDays(date \div 24)[1])

\* local time, in hours, of the instant date
ToLocal(date) == date + tz + (IF InDst(date) THEN 1 ELSE 0)

\* the instant of a local time: a time repeated at the end of daylight
\* saving is the earlier instant, a time skipped at its start moves forward
FromLocal(local) ==
    IF InDst(local - tz - 1) THEN local - tz - 1 ELSE local - tz

\* new Date(y, monthIndex, d): midnight local time
LocalDate(y, monthIndex, d) == FromLocal(DaysFromCivil(y, monthIndex + 1, d) * 24)

\* date.toISOString().split('T')[0]
formatDate(date) == CivilFromDays(date \div 24)

\* the local civil date read by getFullYear / getMonth / getDate
LocalCivil(date) == CivilFromDays(ToLocal(date) \div 24)

getFullYear(date) == LocalCivil(date)[1]

\* 0-based, as in JavaScript
getMonth(date) == LocalCivil(date)[2] - 1

getDate(date) == LocalCivil(date)[3]

\* local time of day, kept by the setters
LocalHour(date) == ToLocal(date) % 24

\* date.setDate(n): day n of the local month, overflow normalised
setDate(date, n) ==
    LET OfCivil(c) == FromLocal(DaysFromCivil(c[1], c[2], 1) * 24
                                    + (n - 1) * 24 + LocalHour(date))
    IN OfCivil(LocalCivil(date))

\* date.setMonth(k): month index k (may overflow) of the local year
setMonth(date, k) ==
    LET OfCivil(c) == FromLocal(DaysFromCivil(c[1] + (k \div 12), (k % 12) + 1, 1) * 24
                                    + (c[3] - 1) * 24 + LocalHour(date))
    IN OfCivil(LocalCivil(date))

---------------------------------------------------------------------------
(* Math.random and the helpers built on it *)

\* one step of the generator behind Math.random (a full-period LCG)
NextRandom(x) == (20077 * x + 12345) % RandDen

\* the values of the next k calls of Math.random, the first one being x
\* (built by halves, which keeps the evaluation shallow)
RECURSIVE RandomStream(_, _)
RandomStream(x, k) ==
    IF k = 0 THEN << >>
    ELSE IF k = 1 THEN <<x>>
    ELSE LET left == RandomStream(x, k \div 2)
         IN left \o RandomStream(NextRandom(left[Len(left)]), k - (k \div 2))

\* the state of Math.random after k calls from state x
Advance(x, k) == IF k = 0 THEN x ELSE RandomStream(x, k + 1)[k + 1]

\* Math.floor(Math.random() * (max - min + 1) + min) with Math.random() = n/RandDen
randomBetween(n, min, max) == ((n * (max - min + 1)) \div RandDen) + min

\* randomFloatBetween(min, max) at precision 2, min and max in thousandths;
\* the result is in hundredths
randomFloatBetween(n, minK, maxK) ==
    (n * (maxK - minK) + minK * RandDen + 5 * RandDen) \div (10 * RandDen)

\* Math.floor(Math.random() * k)
RandomIndex(n, k) == (n * k) \div RandDen

\* Math.random() < pct / 100
RandomBelow(n, pct) == n * 100 < pct * RandDen

---------------------------------------------------------------------------
(* generate-fin-data.js: constants and registries *)

\* new Date(2020, 0, 1), local time
START_DATE == LocalDate(2020, 0, 1)

\* new Date(2025, 3, 1), local time
END_DATE == LocalDate(2025, 3, 1)

locations ==
    << [id |-> "LOC001", opened_date |-> <<2015, 3, 15>>, square_footage |-> 3200, monthly_rent |-> 12800],
       [id |-> "LOC002", opened_date |-> <<2017, 6, 22>>, square_footage |-> 2800, monthly_rent |-> 9800],
       [id |-> "LOC003", opened_date |-> <<2019, 11, 10>>, square_footage |-> 2400, monthly_rent |-> 7200] >>

serviceCategories ==
    << "Diagnostic", "Preventive", "Restorative", "Endodontic", "Periodontic",
       "Prosthodontic", "Oral Surgery", "Orthodontic", "Implant", "Adjunctive" >>

\* categoryWeights, in hundredths
categoryWeights ==
    [ c \in {serviceCategories[k] : k \in 1..10} |->
        CASE c = "Diagnostic" -> 10
          [] c = "Preventive" -> 20
          [] c = "Restorative" -> 25
          [] c = "Endodontic" -> 8
          [] c = "Periodontic" -> 7
          [] c = "Prosthodontic" -> 10
          [] c = "Oral Surgery" -> 5
          [] c = "Orthodontic" -> 8
          [] c = "Implant" -> 5
          [] c = "Adjunctive" -> 2 ]

\* the names of insuranceProviders of the financial generator, in order
finInsuranceProviders ==
    << "Delta Dental", "Cigna Dental", "Aetna", "MetLife", "Guardian",
       "United Healthcare", "Self-Pay" >>

\* payorWeights[provider.name] || 0.02, in hundredths
payorWeights ==
    [ n \in {finInsuranceProviders[k] : k \in 1..7} |->
        CASE n = "Delta Dental" -> 30
          [] n = "Cigna Dental" -> 15
          [] n = "Aetna" -> 12
          [] n = "MetLife" -> 10
          [] n = "Guardian" -> 8
          [] n = "United Healthcare" -> 5
          [] n = "Self-Pay" -> 20
          [] OTHER -> 2 ]

\* the expense categories that are a share of revenue, in the order of their
\* draws, with the band of randomFloatBetween in thousandths
expenseBands ==
    << <<"Labor_Clinical", 180, 220>>, <<"Labor_Administrative", 60, 100>>,
       <<"Supplies_Clinical", 50, 80>>, <<"Supplies_Office", 10, 20>>,
       <<"Rent_Lease", 980, 1020>>,
       <<"Utilities", 10, 30>>, <<"Equipment_Costs", 30, 50>>,
       <<"Marketing", 30, 70>>, <<"Insurance", 20, 40>>,
       <<"Professional_Fees", 20, 40>>, <<"Continuing_Education", 5, 15>>,
       <<"Lab_Fees", 60, 100>>, <<"Software_IT", 10, 30>>,
       <<"Travel", 5, 15>>, <<"Miscellaneous", 10, 30>> >>

\* Math.random calls made by one generateMonthlyFinancialData, in order:
\*  1 seasonal, 2 growth, 3 base revenue, 4..13 category weights,
\*  14..28 expenses, 29 days in AR, 30..33 AR aging, 34..35 claims,
\*  36 days to payment, 37 collections, 38..40 procedures, 41..42 patients,
\*  43 chair hours, 44..50 payor weights, 51..53 treatment plans
DrawsPerRecord == 53

---------------------------------------------------------------------------
(* generate-fin-data.js: factors *)

\* getSeasonalFactor(date), in hundredths, from draw n
getSeasonalFactor(date, n) ==
    LET OfMonth(month) ==
            IF month = 11 \/ month = 0 \/ month = 1 THEN randomFloatBetween(n, 850, 950)
            ELSE IF month >= 2 /\ month <= 4 THEN randomFloatBetween(n, 1050, 1150)
            ELSE IF month >= 5 /\ month <= 7 THEN randomFloatBetween(n, 900, 1100)
            ELSE randomFloatBetween(n, 950, 1050)
    IN OfMonth(getMonth(date))

\* yearsSinceOpening, in twelfths of a year
yearsSinceOpening12(date, location) ==
    LET Between(c, o) == 12 * (c[1] - o[1]) + (c[2] - o[2])
    IN Between(LocalCivil(date), LocalCivil(ParseDate(location.opened_date)))

\* the denominator of getGrowthFactor
GrowthDen == 240000

\* getGrowthFactor(date, location), as a numerator over GrowthDen, from draw n
getGrowthFactor(date, location, n) ==
    LET OfYears(y12, f) ==
            IF y12 < 24 THEN GrowthDen + y12 * 40 * f
            ELSE IF y12 < 48 THEN GrowthDen + 96000 + (y12 - 24) * 24 * f
            ELSE GrowthDen + 153600 + (y12 - 48) * 11 * f
    IN OfYears(yearsSinceOpening12(date, location), randomFloatBetween(n, 900, 1100))

\* baseRevenue drawn from 0 upwards
baseRevenueFromZero(location, n) == randomBetween(n, 0, 130000)

\* baseRevenue from draw n
baseRevenue(location, n) ==
    IF location.id = "LOC001" THEN randomBetween(n, 180000, 220000)
    ELSE IF location.id = "LOC002" THEN randomBetween(n, 140000, 170000)
    ELSE randomBetween(n, 100000, 130000)

\* Math.round(baseRevenue * seasonalFactor * growthFactor)
totalRevenueOf(date, location, U) ==
    MulRoundDiv(baseRevenue(location, U[3]) * getSeasonalFactor(date, U[1]),
                getGrowthFactor(date, location, U[2]),
                100 * GrowthDen)

---------------------------------------------------------------------------
(* generate-fin-data.js: breakdowns *)

\* the perturbed weights: weight (hundredths) * randomFloatBetween(0.85, 1.15)
\* for names[k] with draw U[first + k - 1]
PerturbedWeights(names, weights, U, first) ==
    [ k \in 1..Len(names) |->
        weights[names[k]] * randomFloatBetween(U[first + k - 1], 850, 1150) ]

\* Math.round((weight / totalWeight) * total) for every name
Normalized(names, weights, U, first, total) ==
    LET Shares(w, totalWeight) ==
            [ k \in 1..Len(names) |-> MulRoundDiv(w[k], total, totalWeight) ]
        OfWeights(w) == Shares(w, SumSeq(w))
    IN OfWeights(PerturbedWeights(names, weights, U, first))

\* serviceRevenue after normalisation, by position in serviceCategories
serviceRevenue(totalRevenue, U) ==
    Normalized(serviceCategories, categoryWeights, U, 4, totalRevenue)

\* payorMix after normalisation, by position in insuranceProviders
payorMix(totalRevenue, U) ==
    Normalized(finInsuranceProviders, payorWeights, U, 44, totalRevenue)

\* expenseData, by position in expenseBands: a share of revenue, except
\* Rent/Lease, a share of the location's monthly rent
expenseData(totalRevenue, location, U) ==
    [ k \in 1..Len(expenseBands) |->
        LET e == expenseBands[k]
            rate == randomFloatBetween(U[13 + k], e[2], e[3])
            basis == IF e[1] = "Rent_Lease" THEN location.monthly_rent ELSE totalRevenue
        IN RoundDiv(basis * rate, 100) ]

\* totalExpenses leaving out the first expense category
totalExpensesWithoutFirst(exp) == SumSeq(Tail(exp))

\* totalExpenses: Object.values(expenseData).reduce((sum, value) => sum + value, 0)
totalExpensesOf(exp) == SumSeq(exp)

---------------------------------------------------------------------------
(* generate-fin-data.js: generateMonthlyFinancialData *)

\* the placeholder 0 of a comparative field: a number
Placeholder == [type |-> "number", e4 |-> 0, finite |-> TRUE]

\* (num / den).toFixed(4): a string, here its value in ten-thousandths,
\* rounded half away from zero; a zero divisor gives "NaN" or "Infinity"
toFixed4(num, den) ==
    IF den = 0 THEN [type |-> "string", e4 |-> 0, finite |-> FALSE]
    ELSE LET sign == IF (num < 0) = (den < 0) THEN 1 ELSE 0 - 1
         IN [type |-> "string",
             e4 |-> sign * MulRoundDiv(Abs(num), 10000, Abs(den)),
             finite |-> TRUE]

\* the record returned by generateMonthlyFinancialData(date, location), U
\* being the values of its Math.random calls in order
generateMonthlyFinancialData(date, location, U) ==
    LET Record(year, month, totalRevenue, rev, exp, totalExpenses, pay, daysInAR,
               numberOfProcedures, patientVisits, newPatients,
               treatmentPlansPresented, treatmentPlansAccepted,
               treatmentPlansCompleted) ==
            [ Financial_ID |-> <<"FIN", location.id, year, month>>,
              Location_ID |-> location.id,
              Date |-> formatDate(date),
              Year |-> year,
              Month |-> month,
              Period |-> <<year, month>>,
              Total_Revenue |-> totalRevenue,
              Revenue_Diagnostic |-> rev[1],
              Revenue_Preventive |-> rev[2],
              Revenue_Restorative |-> rev[3],
              Revenue_Endodontic |-> rev[4],
              Revenue_Periodontic |-> rev[5],
              Revenue_Prosthodontic |-> rev[6],
              Revenue_Oral_Surgery |-> rev[7],
              Revenue_Orthodontic |-> rev[8],
              Revenue_Implant |-> rev[9],
              Revenue_Adjunctive |-> rev[10],
              Total_Expenses |-> totalExpenses,
              Labor_Clinical |-> exp[1],
              Labor_Administrative |-> exp[2],
              Supplies_Clinical |-> exp[3],
              Supplies_Office |-> exp[4],
              Rent_Lease |-> exp[5],
              Utilities |-> exp[6],
              Equipment_Costs |-> exp[7],
              Marketing |-> exp[8],
              Insurance |-> exp[9],
              Professional_Fees |-> exp[10],
              Continuing_Education |-> exp[11],
              Lab_Fees |-> exp[12],
              Software_IT |-> exp[13],
              Travel |-> exp[14],
              Miscellaneous |-> exp[15],
              EBITDA |-> totalRevenue - totalExpenses,
              Total_AR |-> RoundDiv(totalRevenue * daysInAR, 30),
              Total_Claims_Submitted |-> RoundDiv(totalRevenue * 8, 1500),
              Total_Procedures |-> numberOfProcedures,
              Total_Patient_Visits |-> patientVisits,
              New_Patients |-> newPatients,
              Returning_Patients |-> patientVisits - newPatients,
              Payor_Delta_Dental |-> pay[1],
              Payor_Cigna_Dental |-> pay[2],
              Payor_Aetna |-> pay[3],
              Payor_MetLife |-> pay[4],
              Payor_Guardian |-> pay[5],
              Payor_United_Healthcare |-> pay[6],
              Payor_Self_Pay |-> pay[7],
              Treatment_Plans_Presented |-> treatmentPlansPresented,
              Treatment_Plans_Accepted |-> treatmentPlansAccepted,
              Treatment_Plans_Completed |-> treatmentPlansCompleted,
              Revenue_MoM_Change |-> Placeholder,
              Revenue_YoY_Change |-> Placeholder,
              EBITDA_MoM_Change |-> Placeholder,
              EBITDA_YoY_Change |-> Placeholder ]
        Completed(year, month, totalRevenue, rev, exp, pay, numberOfProcedures,
                  patientVisits, treatmentPlansPresented, treatmentPlansAccepted) ==
            Record(year, month, totalRevenue, rev, exp, totalExpensesOf(exp), pay,
                   randomBetween(U[29], 30, 45),
                   numberOfProcedures, patientVisits,
                   RoundDiv(patientVisits * randomFloatBetween(U[41], 150, 250), 100),
                   treatmentPlansPresented, treatmentPlansAccepted,
                   RoundDiv(treatmentPlansAccepted * randomFloatBetween(U[53], 700, 900), 100))
        Accepted(year, month, totalRevenue, rev, exp, pay, numberOfProcedures,
                 patientVisits, treatmentPlansPresented) ==
            Completed(year, month, totalRevenue, rev, exp, pay, numberOfProcedures,
                      patientVisits, treatmentPlansPresented,
                      RoundDiv(treatmentPlansPresented * randomFloatBetween(U[52], 600, 800), 100))
        Visits(year, month, totalRevenue, rev, exp, pay, numberOfProcedures, patientVisits) ==
            Accepted(year, month, totalRevenue, rev, exp, pay, numberOfProcedures,
                     patientVisits,
                     RoundDiv(patientVisits * randomFloatBetween(U[51], 300, 500), 100))
        Procedures(year, month, totalRevenue, numberOfProcedures) ==
            Visits(year, month, totalRevenue,
                   serviceRevenue(totalRevenue, U),
                   expenseData(totalRevenue, location, U),
                   payorMix(totalRevenue, U),
                   numberOfProcedures, RoundDiv(numberOfProcedures * 7, 10))
        Revenue(year, month, totalRevenue) ==
            Procedures(year, month, totalRevenue,
                       RoundDiv(totalRevenue, randomBetween(U[38], 200, 300)))
        OfCivil(c) == Revenue(c[1], c[2], totalRevenueOf(date, location, U))
    IN OfCivil(LocalCivil(date))

---------------------------------------------------------------------------
(* generate-fin-data.js: generateFinancialDataset *)

\* startDateOf without the clamp to START_DATE
startDateOfOpening(location) == setDate(ParseDate(location.opened_date), 1)

\* startDate of a location: the later of its opening date and START_DATE,
\* set to the first day of the (local) month
startDateOf(location) ==
    LET locationOpenDate == ParseDate(location.opened_date)
        startDate == IF locationOpenDate > START_DATE THEN locationOpenDate ELSE START_DATE
    IN setDate(startDate, 1)

\* what the comparator of financialData.sort reads of a record: the place
\* of its Location_ID under localeCompare (the registry lists the ids in
\* ascending order) and new Date(record.Date)
finSortKey(a) ==
    << CHOOSE k \in 1..Len(locations) : locations[k].id = a.Location_ID,
       ParseDate(a.Date) >>

\* the comparator of financialData.sort is negative, on the keys of a and b
FinBefore(ka, kb) ==
    IF ka[1] = kb[1] THEN ka[2] - kb[2] < 0 ELSE ka[1] < kb[1]

\* financialData.sort(comparator), Array.prototype.sort being stable: the
\* element at index i goes to the place given by the number of elements
\* that sort before it, or compare equal to it and precede it
sortFinancialData(s) ==
    LET n == Len(s)
        key == SubSeq([ i \in 1..n |-> finSortKey(s[i]) ], 1, n)
        rank == SubSeq([ i \in 1..n |->
                    Cardinality({ j \in 1..n :
                        \/ FinBefore(key[j], key[i])
                        \/ (~FinBefore(key[i], key[j]) /\ j < i) }) + 1 ], 1, n)
    IN SubSeq([ k \in 1..n |-> s[CHOOSE i \in 1..n : rank[i] = k] ], 1, n)

\* the least element of a non-empty set of indices, 0 for the empty set:
\* Array.prototype.find returns the first match, undefined for none
FirstIndex(hits) ==
    IF hits = {} THEN 0 ELSE CHOOSE k \in hits : \A j \in hits : k <= j

\* prevMonthOf without the wrap to December of the previous year
prevMonthOfSameYear(data, current) ==
    FirstIndex({ k \in 1..Len(data) :
        /\ data[k].Location_ID = current.Location_ID
        /\ data[k].Year = current.Year
        /\ data[k].Month = (IF current.Month = 1 THEN 12 ELSE current.Month - 1) })

\* the record of the previous month of the same location
prevMonthOf(data, current) ==
    FirstIndex({ k \in 1..Len(data) :
        /\ data[k].Location_ID = current.Location_ID
        /\ data[k].Year = (IF current.Month = 1 THEN current.Year - 1 ELSE current.Year)
        /\ data[k].Month = (IF current.Month = 1 THEN 12 ELSE current.Month - 1) })

\* the record of the same month one year earlier, same location
prevYearOf(data, current) ==
    FirstIndex({ k \in 1..Len(data) :
        /\ data[k].Location_ID = current.Location_ID
        /\ data[k].Year = current.Year - 1
        /\ data[k].Month = current.Month })

\* changeOf dividing by the current value
changeOfCurrent(current, previous) == toFixed4(current - previous, current)

\* ((current - previous) / previous).toFixed(4)
changeOf(current, previous) == toFixed4(current - previous, previous)

\* the comparative loop also restating the revenue of the current record
\* as that of the previous month
withComparativesRestated(data, i) ==
    LET OfPrevious(current, pm) ==
            IF pm = 0 THEN data
            ELSE [data EXCEPT ![i] =
                    [current EXCEPT
                       !.Revenue_MoM_Change = changeOf(current.Total_Revenue, data[pm].Total_Revenue),
                       !.Total_Revenue = data[pm].Total_Revenue]]
    IN OfPrevious(data[i], prevMonthOf(data, data[i]))

\* one iteration of the comparative loop on financialData[i]
withComparatives(data, i) ==
    LET current == data[i]
        pm == prevMonthOf(data, current)
        py == prevYearOf(data, current)
        c1 == IF pm = 0 THEN current
              ELSE [current EXCEPT
                      !.Revenue_MoM_Change = changeOf(current.Total_Revenue, data[pm].Total_Revenue),
                      !.EBITDA_MoM_Change = changeOf(current.EBITDA, data[pm].EBITDA)]
        c2 == IF py = 0 THEN c1
              ELSE [c1 EXCEPT
                      !.Revenue_YoY_Change = changeOf(current.Total_Revenue, data[py].Total_Revenue),
                      !.EBITDA_YoY_Change = changeOf(current.EBITDA, data[py].EBITDA)]
    IN [data EXCEPT ![i] = c2]

FinInit ==
    /\ tz \in TzOffsets
    /\ rng \in 0..MaxSeed
    /\ fpc = "generate"
    /\ locIdx = 1
    /\ currentDate = startDateOf(locations[1])
    /\ financialData = << >>
    /\ cmpIdx = 0
    /\ draws = << >>
    /\ ppc = "idle"
    /\ visitIdx = 0
    /\ patients = << >>
    /\ appointments = << >>

\* one iteration of the while loop: lines 472-478
GenerateMonth ==
    /\ fpc = "generate"
    /\ currentDate <= END_DATE
    /\ financialData' = Append(financialData,
            generateMonthlyFinancialData(currentDate, locations[locIdx],
                                         RandomStream(NextRandom(rng), DrawsPerRecord)))
    /\ rng' = Advance(rng, DrawsPerRecord)
    /\ currentDate' = setMonth(currentDate, getMonth(currentDate) + 1)
    /\ UNCHANGED <<tz, fpc, locIdx, cmpIdx, patVars>>

\* the while loop ends and the for-of loop takes the next location
NextLocation ==
    /\ fpc = "generate"
    /\ currentDate > END_DATE
    /\ locIdx < Len(locations)
    /\ locIdx' = locIdx + 1
    /\ currentDate' = startDateOf(locations[locIdx + 1])
    /\ UNCHANGED <<tz, rng, fpc, financialData, cmpIdx, patVars>>

\* the for-of loop ends: financialData.sort, lines 482-487
SortFinancialData ==
    /\ fpc = "generate"
    /\ currentDate > END_DATE
    /\ locIdx = Len(locations)
    /\ financialData' = sortFinancialData(financialData)
    /\ fpc' = "compare"
    /\ cmpIdx' = 1
    /\ UNCHANGED <<tz, rng, locIdx, currentDate, patVars>>

\* one iteration of the comparative loop: lines 490-518
Compare ==
    /\ fpc = "compare"
    /\ cmpIdx <= Len(financialData)
    /\ financialData' = withComparatives(financialData, cmpIdx)
    /\ cmpIdx' = cmpIdx + 1
    /\ UNCHANGED <<tz, rng, fpc, locIdx, currentDate, patVars>>

\* return financialData
ReturnFinancialData ==
    /\ fpc = "compare"
    /\ cmpIdx > Len(financialData)
    /\ fpc' = "done"
    /\ UNCHANGED <<tz, rng, locIdx, currentDate, financialData, cmpIdx, patVars>>

FinNext ==
    \/ GenerateMonth
    \/ NextLocation
    \/ SortFinancialData
    \/ Compare
    \/ ReturnFinancialData

\* generateFinancialDataset, run once
SpecFin == FinInit /\ [][FinNext]_vars

\* the Math.random calls of one record at the ends of their ranges: rv for
\* the seasonal, growth and base-revenue draws, ex for the expense draws,
\* pv for the draw of the average procedure value, x for the others
ExtremeStream(rv, ex, pv, x) ==
    [ k \in 1..DrawsPerRecord |->
        IF k <= 3 THEN rv
        ELSE IF k >= 14 /\ k <= 28 THEN ex
        ELSE IF k = 38 THEN pv
        ELSE x ]

\* the dataset generated with every record at the same end of its draws
ExtremeInit ==
    /\ tz \in TzOffsets
    /\ rng = 0
    /\ fpc = "generate"
    /\ locIdx = 1
    /\ currentDate = startDateOf(locations[1])
    /\ financialData = << >>
    /\ cmpIdx = 0
    /\ draws \in { ExtremeStream(rv, ex, pv, x) :
                    rv \in {0, RandDen - 1}, ex \in {0, RandDen - 1},
                    pv \in {0, RandDen - 1}, x \in {0, RandDen - 1} }
    /\ ppc = "idle"
    /\ visitIdx = 0
    /\ patients = << >>
    /\ appointments = << >>

\* one iteration of the while loop, Math.random returning the draws
GenerateMonthOfDraws ==
    /\ fpc = "generate"
    /\ currentDate <= END_DATE
    /\ financialData' = Append(financialData,
            generateMonthlyFinancialData(currentDate, locations[locIdx], draws))
    /\ currentDate' = setMonth(currentDate, getMonth(currentDate) + 1)
    /\ UNCHANGED <<tz, rng, fpc, locIdx, cmpIdx, patVars>>

ExtremeNext ==
    \/ GenerateMonthOfDraws
    \/ NextLocation
    \/ SortFinancialData
    \/ Compare
    \/ ReturnFinancialData

\* generateFinancialDataset at the ends of the draws
SpecFinExtremes == ExtremeInit /\ [][ExtremeNext]_vars

---------------------------------------------------------------------------
(* generate-pat-data.js: constants and registries *)

\* locations, by id
patLocations == << [id |-> "LOC001"], [id |-> "LOC002"], [id |-> "LOC003"] >>

providers ==
    << [id |-> "DR001"], [id |-> "DR002"], [id |-> "DR003"], [id |-> "DR004"],
       [id |-> "DR005"], [id |-> "HYG001"], [id |-> "HYG002"], [id |-> "HYG003"] >>

\* insuranceProviders with Delta Dental at a reimbursement rate of 0.95
insuranceProvidersGenerous ==
    << [name |-> "Delta Dental", avg_reimbursement_rate |-> 95],
       [name |-> "Cigna Dental", avg_reimbursement_rate |-> 80],
       [name |-> "Aetna", avg_reimbursement_rate |-> 75],
       [name |-> "MetLife", avg_reimbursement_rate |-> 82],
       [name |-> "Guardian", avg_reimbursement_rate |-> 78],
       [name |-> "No Insurance", avg_reimbursement_rate |-> 100] >>

\* insuranceProviders, avg_reimbursement_rate in hundredths
insuranceProviders ==
    << [name |-> "Delta Dental", avg_reimbursement_rate |-> 85],
       [name |-> "Cigna Dental", avg_reimbursement_rate |-> 80],
       [name |-> "Aetna", avg_reimbursement_rate |-> 75],
       [name |-> "MetLife", avg_reimbursement_rate |-> 82],
       [name |-> "Guardian", avg_reimbursement_rate |-> 78],
       [name |-> "No Insurance", avg_reimbursement_rate |-> 100] >>

procedures ==
    << [code |-> "D0120", category |-> "Diagnostic", avg_fee |-> 60],
       [code |-> "D0150", category |-> "Diagnostic", avg_fee |-> 110],
       [code |-> "D0210", category |-> "Diagnostic", avg_fee |-> 150],
       [code |-> "D0220", category |-> "Diagnostic", avg_fee |-> 35],
       [code |-> "D0274", category |-> "Diagnostic", avg_fee |-> 70],
       [code |-> "D1110", category |-> "Preventive", avg_fee |-> 110],
       [code |-> "D1120", category |-> "Preventive", avg_fee |-> 85],
       [code |-> "D1208", category |-> "Preventive", avg_fee |-> 45],
       [code |-> "D1351", category |-> "Preventive", avg_fee |-> 60],
       [code |-> "D2140", category |-> "Restorative", avg_fee |-> 155],
       [code |-> "D2150", category |-> "Restorative", avg_fee |-> 195],
       [code |-> "D2160", category |-> "Restorative", avg_fee |-> 235],
       [code |-> "D2330", category |-> "Restorative", avg_fee |-> 175],
       [code |-> "D2331", category |-> "Restorative", avg_fee |-> 215],
       [code |-> "D2332", category |-> "Restorative", avg_fee |-> 255],
       [code |-> "D2740", category |-> "Restorative", avg_fee |-> 1250],
       [code |-> "D2750", category |-> "Restorative", avg_fee |-> 1150],
       [code |-> "D3310", category |-> "Endodontic", avg_fee |-> 825],
       [code |-> "D3320", category |-> "Endodontic", avg_fee |-> 950],
       [code |-> "D3330", category |-> "Endodontic", avg_fee |-> 1150],
       [code |-> "D4341", category |-> "Periodontic", avg_fee |-> 275],
       [code |-> "D4910", category |-> "Periodontic", avg_fee |-> 135],
       [code |-> "D5110", category |-> "Prosthodontic", avg_fee |-> 1850],
       [code |-> "D5120", category |-> "Prosthodontic", avg_fee |-> 1850],
       [code |-> "D5213", category |-> "Prosthodontic", avg_fee |-> 1650],
       [code |-> "D5214", category |-> "Prosthodontic", avg_fee |-> 1650],
       [code |-> "D6010", category |-> "Implant", avg_fee |-> 2100],
       [code |-> "D6056", category |-> "Implant", avg_fee |-> 650],
       [code |-> "D6058", category |-> "Implant", avg_fee |-> 1550],
       [code |-> "D8080", category |-> "Orthodontic", avg_fee |-> 5500],
       [code |-> "D8090", category |-> "Orthodontic", avg_fee |-> 6200],
       [code |-> "D9110", category |-> "Adjunctive", avg_fee |-> 125],
       [code |-> "D9215", category |-> "Adjunctive", avg_fee |-> 45],
       [code |-> "D9310", category |-> "Adjunctive", avg_fee |-> 95] >>

\* teeth: '1' .. '32', a tooth being the tuple of its number
teeth == [ k \in 1..32 |-> <<k>> ]

appointmentStatuses == << "Completed", "No-Show", "Canceled", "Rescheduled" >>

\* statusProbabilities, in hundredths
statusProbabilities == << 85, 5, 7, 3 >>

paymentMethods == << "Credit Card", "Debit Card", "Cash", "Check", "Insurance Only" >>

---------------------------------------------------------------------------
(* generate-pat-data.js: Math.random by call site *)

\* the call sites of Math.random in generatePatients (the draws of gender,
\* names and zip code decide no modelled field and are left out), in the
\* visit loop and in the procedure loop of generateAppointmentData
PatientSites == {"age", "insured", "insurer", "regYear", "regMonth", "regDay", "active"}

VisitSites == {"patient", "date", "location", "provider", "status", "count"}

ProcedureSites ==
    {"common", "index", "charge", "coverage", "discount", "discountRate",
     "paid", "method", "tooth", "plan", "planId", "planCreation",
     "planCompleted", "planCompletion", "planRate", "estimate",
     "claim", "claimSplit", "claimPayment"}

DrawSites == PatientSites \cup VisitSites \cup ProcedureSites

\* every call site at its lowest value
LowestDraws == [ s \in DrawSites |-> 0 ]

\* the largest value of Math.random, as a numerator
Highest == RandDen - 1

\* k values spread over 0..RandDen-1, the j-th one giving
\* Math.floor(Math.random() * k) = j
Grid(k) == { (j * RandDen + k - 1) \div k : j \in 0..(k - 1) }

\* the values returned at every call site by its (k+1)-th call
DrawsAt(d, k) == [ s \in DrawSites |-> Advance(d[s], k) ]

---------------------------------------------------------------------------
(* Exact comparison of products of up to five factors below 2^16: numbers
   of six base-10^4 digits, least significant first *)

BigStep(acc, m, d) ==
    LET t == d * m + acc[2]
    IN <<Append(acc[1], t % 10000), t \div 10000>>

BigTimes(b, m) ==
    BigStep(BigStep(BigStep(BigStep(BigStep(BigStep(<< << >>, 0 >>,
        m, b[1]), m, b[2]), m, b[3]), m, b[4]), m, b[5]), m, b[6])[1]

BigOne == <<1, 0, 0, 0, 0, 0>>

BigLeq(a, b) ==
    \/ a = b
    \/ \E k \in 1..6 : a[k] < b[k] /\ \A j \in (k + 1)..6 : a[j] = b[j]

---------------------------------------------------------------------------
(* generate-pat-data.js: generatePatients *)

\* insuranceProvider drawn over the whole registry, its last entry included
insuranceProviderOfAny(hasInsurance, n) ==
    IF hasInsurance
    THEN insuranceProviders[RandomIndex(n, Len(insuranceProviders)) + 1].name
    ELSE "No Insurance"

\* insuranceProvider: one of the registry entries but the last for an
\* insured patient
insuranceProviderOf(hasInsurance, n) ==
    IF hasInsurance
    THEN insuranceProviders[RandomIndex(n, Len(insuranceProviders) - 1) + 1].name
    ELSE "No Insurance"

\* the i-th patient pushed by generatePatients, D giving the value of
\* every call site
Patient(i, D) ==
    LET age == randomBetween(D.age, 18, 85)
        hasInsurance == RandomBelow(D.insured, 80)
        insuranceProvider == insuranceProviderOf(hasInsurance, D.insurer)
        regYear == randomBetween(D.regYear, 2018, 2024)
        regMonth == randomBetween(D.regMonth, 1, 12)
        regDay == randomBetween(D.regDay, 1, 28)
    IN [ patient_id |-> <<"PAT", i>>,
         age |-> age,
         registration_date |-> <<regYear, regMonth, regDay>>,
         insurance_provider |-> insuranceProvider,
         is_active |-> RandomBelow(D.active, 90) ]

\* generatePatients() for a population of n patients
generatePatients(d, n) ==
    SubSeq([ i \in 1..n |-> Patient(i, DrawsAt(d, i - 1)) ], 1, n)

---------------------------------------------------------------------------
(* generate-pat-data.js: generateAppointmentData, one visit *)

\* new Date(start.getTime() + Math.random() * (end.getTime() - start.getTime()))
randomDate(start, end, n) == start + ((n * (end - start)) \div RandDen)

\* Math.floor(Math.pow(Math.random(), 1.5) * length): the largest k with
\* k^2 * RandDen^3 <= n^3 * length^2
patientIndexOf(n, length) ==
    LET lhs(k) == BigTimes(BigTimes(BigTimes(BigTimes(BigTimes(BigOne, k), k), RandDen), RandDen), RandDen)
        rhs == BigTimes(BigTimes(BigTimes(BigTimes(BigTimes(BigOne, n), n), n), length), length)
    IN CHOOSE k \in 0..(length - 1) :
            /\ BigLeq(lhs(k), rhs)
            /\ k + 1 < length => ~BigLeq(lhs(k + 1), rhs)

\* statusIndexOf comparing statusRand with each probability on its own
statusIndexOfPlain(n) ==
    LET hits == { j \in 0..(Len(statusProbabilities) - 1) :
                    n * 100 <= statusProbabilities[j + 1] * RandDen }
    IN IF hits = {} THEN 0 ELSE CHOOSE j \in hits : \A h \in hits : j <= h

\* the loop over statusProbabilities: the first j whose cumulative
\* probability is at least statusRand, 0 when there is none
statusIndexOf(n) ==
    LET cumulativeProb(j) == SumSeq(SubSeq(statusProbabilities, 1, j + 1))
        hits == { j \in 0..(Len(statusProbabilities) - 1) : n * 100 <= cumulativeProb(j) * RandDen }
    IN IF hits = {} THEN 0 ELSE CHOOSE j \in hits : \A h \in hits : j <= h

\* numProceduresForVisit drawn in 1..4
numProceduresUpToFour(n) == randomBetween(n, 1, 4)

\* numProceduresForVisit = randomBetween(1, 3)
numProceduresForVisitOf(n) == randomBetween(n, 1, 3)

\* what the visit loop computes before the procedure loop, for visit i
\* (0-based) and the values V of the visit's call sites
visitOf(i, pats, V) ==
    LET patient == pats[patientIndexOf(V.patient, Len(pats)) + 1]
        regDate == ParseDate(patient.registration_date)
        visitDate == randomDate(IF regDate > START_DATE THEN regDate ELSE START_DATE,
                                END_DATE, V.date)
    IN [ i |-> i,
         patient |-> patient,
         visitDate |-> visitDate,
         formattedVisitDate |-> formatDate(visitDate),
         year |-> getFullYear(visitDate),
         month |-> getMonth(visitDate) + 1,
         location |-> patLocations[RandomIndex(V.location, Len(patLocations)) + 1],
         provider |-> providers[RandomIndex(V.provider, Len(providers)) + 1],
         appointmentStatus |-> appointmentStatuses[statusIndexOf(V.status) + 1],
         visitId |-> <<"V", i + 1>>,
         numProceduresForVisit |-> numProceduresForVisitOf(V.count) ]

---------------------------------------------------------------------------
(* generate-pat-data.js: generateAppointmentData, one procedure row *)

\* the procedure selected for a row: 60% among the first 10 of the catalog
procedureOf(R) ==
    LET procedureIndex == IF RandomBelow(R.common, 60)
                          THEN RandomIndex(R.index, 10)
                          ELSE RandomIndex(R.index, Len(procedures))
    IN procedures[procedureIndex + 1]

\* the financial branch taken by Completed and by Rescheduled visits
appointmentCompletedOrRescheduled(appointmentStatus) ==
    appointmentStatus \in {"Completed", "Rescheduled"}

\* appointmentStatus === 'Completed'
appointmentCompleted(appointmentStatus) == appointmentStatus = "Completed"

\* Math.round(procedure.avg_fee * (0.9 + Math.random() * 0.2))
chargedAmountOf(procedure, n) ==
    MulRoundDiv(procedure.avg_fee, 9 * RandDen + 2 * n, 10 * RandDen)

\* hasInsurance testing the self-pay name of the financial generator
hasInsuranceSelfPay(patient) == patient.insurance_provider /= "Self-Pay"

\* patient.insurance_provider !== 'No Insurance'
hasInsuranceOf(patient) == patient.insurance_provider /= "No Insurance"

\* coverageRateOf with a rate of 0 for a plan that is not in the registry
coverageRateOfNoFallback(patient, n) ==
    LET provider == FirstIndex({ k \in 1..Len(insuranceProviders) :
                        insuranceProviders[k].name = patient.insurance_provider })
        coverageRate == IF provider /= 0
                        THEN insuranceProviders[provider].avg_reimbursement_rate
                        ELSE 0
    IN Max(500 * RandDen, Min(950 * RandDen, coverageRate * (9 * RandDen + 2 * n)))

\* coverageRate after the variation and the clamp to [0.5, 0.95], as a
\* numerator over 1000 * RandDen; 0.75 when the plan is not in the registry
coverageRateOf(patient, n) ==
    LET provider == FirstIndex({ k \in 1..Len(insuranceProviders) :
                        insuranceProviders[k].name = patient.insurance_provider })
        coverageRate == IF provider /= 0
                        THEN insuranceProviders[provider].avg_reimbursement_rate
                        ELSE 75
    IN Max(500 * RandDen, Min(950 * RandDen, coverageRate * (9 * RandDen + 2 * n)))

\* insuranceCovered
insuranceCoveredOf(chargedAmount, patient, n) ==
    IF hasInsuranceOf(patient)
    THEN MulRoundDiv(chargedAmount, coverageRateOf(patient, n), 1000 * RandDen)
    ELSE 0

\* discountRate, in tenths: 15% of the rows get 10%, 20% or 30%
discountRateOf(R) ==
    IF RandomBelow(R.discount, 15) THEN randomBetween(R.discountRate, 1, 3) ELSE 0

\* Math.round(patientResponsibility * discountRate)
discountAmountOf(patientResponsibility, discountRate) ==
    RoundDiv(patientResponsibility * discountRate, 10)

\* outOfPocket rounded on its own: Math.round(patientResponsibility * (1 - discountRate))
outOfPocketRounded(patientResponsibility, discountRate) ==
    RoundDiv(patientResponsibility * (10 - discountRate), 10)

\* patientResponsibility - discountAmount
outOfPocketOf(patientResponsibility, discountRate) ==
    patientResponsibility - discountAmountOf(patientResponsibility, discountRate)

\* amountPaid collected whether or not the row is paid
amountPaidAlways(isPaid, outOfPocket) == outOfPocket

\* amountPaid = isPaid ? outOfPocket : 0
amountPaidOf(isPaid, outOfPocket) == IF isPaid THEN outOfPocket ELSE 0

\* the number of a procedure counted within its visit
procedureNumberWithinVisit(i, p) == p + 1

\* the number in procedureId: i * 10 + p + 1
procedureNumberOf(i, p) == i * 10 + p + 1

\* the fields both row literals fill from the visit
baseRow(visit, p) ==
    [ Visit_ID |-> visit.visitId,
      Procedure_ID |-> <<"PROC", procedureNumberOf(visit.i, p)>>,
      Patient_ID |-> visit.patient.patient_id,
      Patient_Age |-> visit.patient.age,
      Location_ID |-> visit.location.id,
      Provider_ID |-> visit.provider.id,
      Date_of_Service |-> visit.formattedVisitDate,
      Appointment_Status |-> visit.appointmentStatus,
      Insurance_Provider |-> visit.patient.insurance_provider,
      Is_New_Patient |->
          formatDate(ParseDate(visit.patient.registration_date)) = visit.formattedVisitDate,
      Year |-> visit.year,
      Month |-> visit.month ]

\* the row pushed for procedure p of a completed visit: lines 227-354
completedRow(visit, p, R) ==
    LET patient == visit.patient
        visitDate == visit.visitDate
        procedure == procedureOf(R)
        chargedAmount == chargedAmountOf(procedure, R.charge)
        hasInsurance == hasInsuranceOf(patient)
        insuranceCovered == insuranceCoveredOf(chargedAmount, patient, R.coverage)
        patientResponsibility == chargedAmount - insuranceCovered
        discountRate == discountRateOf(R)
        discountAmount == discountAmountOf(patientResponsibility, discountRate)
        outOfPocket == outOfPocketOf(patientResponsibility, discountRate)
        isPaid == RandomBelow(R.paid, 95)
        needsTooth == procedure.category \in {"Restorative", "Endodontic", "Periodontic", "Implant"}
        hasTreatmentPlan == RandomBelow(R.plan, 30)
        isCompleted == RandomBelow(R.planCompleted, 60)
        tpCreationDate == setDate(visitDate, getDate(visitDate) - randomBetween(R.planCreation, 0, 90))
        tpCompletionDate == setDate(visitDate, getDate(visitDate) + randomBetween(R.planCompletion, 0, 180))
        claimStatus == IF ~hasInsurance THEN ""
                       ELSE IF RandomBelow(R.claim, 95) THEN "Paid"
                       ELSE IF RandomBelow(R.claimSplit, 50) THEN "Pending"
                       ELSE "Denied"
        paymentDateObj == setDate(visitDate, getDate(visitDate) + randomBetween(R.claimPayment, 15, 45))
    IN baseRow(visit, p) @@
       [ Procedure_Code |-> procedure.code,
         Procedure_Category |-> procedure.category,
         Tooth_Number |-> IF needsTooth THEN teeth[RandomIndex(R.tooth, Len(teeth)) + 1] ELSE << >>,
         Charged_Amount |-> chargedAmount,
         Insurance_Covered_Amount |-> insuranceCovered,
         Patient_Responsibility |-> patientResponsibility,
         Discount_Applied |-> discountAmount,
         Out_of_Pocket |-> outOfPocket,
         Amount_Paid |-> amountPaidOf(isPaid, outOfPocket),
         Payment_Method |-> IF isPaid
                            THEN paymentMethods[RandomIndex(R.method, Len(paymentMethods)) + 1]
                            ELSE "",
         Payment_Status |-> IF isPaid THEN "Paid" ELSE "Outstanding",
         Insurance_Claim_Status |-> claimStatus,
         Insurance_Claim_Submission_Date |-> IF hasInsurance THEN visit.formattedVisitDate ELSE << >>,
         Insurance_Claim_Payment_Date |-> IF claimStatus = "Paid" THEN formatDate(paymentDateObj) ELSE << >>,
         Treatment_Plan_ID |-> IF hasTreatmentPlan THEN <<"TP", RandomIndex(R.planId, 10000)>> ELSE << >>,
         Treatment_Plan_Creation_Date |-> IF hasTreatmentPlan THEN formatDate(tpCreationDate) ELSE << >>,
         Treatment_Plan_Completion_Date |->
             IF hasTreatmentPlan /\ isCompleted THEN formatDate(tpCompletionDate) ELSE << >>,
         Treatment_Plan_Completion_Rate |->
             IF ~hasTreatmentPlan THEN 0
             ELSE IF isCompleted THEN 100
             ELSE randomBetween(R.planRate, 10, 90),
         Estimated_Total_Cost |->
             IF hasTreatmentPlan
             THEN MulRoundDiv(chargedAmount, RandDen + R.estimate, RandDen)
             ELSE chargedAmount ]

\* the row pushed for procedure p of a visit that is not completed:
\* lines 355-399
notCompletedRow(visit, p) ==
    baseRow(visit, p) @@
    [ Procedure_Code |-> "",
      Procedure_Category |-> "",
      Tooth_Number |-> << >>,
      Charged_Amount |-> 0,
      Insurance_Covered_Amount |-> 0,
      Patient_Responsibility |-> 0,
      Discount_Applied |-> 0,
      Out_of_Pocket |-> 0,
      Amount_Paid |-> 0,
      Payment_Method |-> "",
      Payment_Status |-> "",
      Insurance_Claim_Status |-> "",
      Insurance_Claim_Submission_Date |-> << >>,
      Insurance_Claim_Payment_Date |-> << >>,
      Treatment_Plan_ID |-> << >>,
      Treatment_Plan_Creation_Date |-> << >>,
      Treatment_Plan_Completion_Date |-> << >>,
      Treatment_Plan_Completion_Rate |-> 0,
      Estimated_Total_Cost |-> 0 ]

\* one iteration of the procedure loop
procedureRow(visit, p, R) ==
    IF appointmentCompleted(visit.appointmentStatus)
    THEN completedRow(visit, p, R)
    ELSE notCompletedRow(visit, p)

\* the rows pushed by iteration i of the visit loop, `made` rows having
\* been pushed before it
visitRows(i, pats, d, made) ==
    LET visit == visitOf(i, pats, DrawsAt(d, i))
        n == visit.numProceduresForVisit
    IN SubSeq([ k \in 1..n |-> procedureRow(visit, k - 1, DrawsAt(d, made + k - 1)) ], 1, n)

\* sortAppointments by a sort that reverses the elements comparing equal
sortAppointmentsUnstable(s) ==
    LET n == Len(s)
        key == SubSeq([ i \in 1..n |-> ParseDate(s[i].Date_of_Service) ], 1, n)
        rank == SubSeq([ i \in 1..n |->
                    Cardinality({ j \in 1..n :
                        \/ key[j] - key[i] < 0
                        \/ (key[j] = key[i] /\ j > i) }) + 1 ], 1, n)
    IN SubSeq([ k \in 1..n |-> s[CHOOSE i \in 1..n : rank[i] = k] ], 1, n)

\* appointments.sort((a, b) => new Date(a.Date_of_Service) - new Date(b.Date_of_Service)),
\* Array.prototype.sort being stable
sortAppointments(s) ==
    LET n == Len(s)
        key == SubSeq([ i \in 1..n |-> ParseDate(s[i].Date_of_Service) ], 1, n)
        rank == SubSeq([ i \in 1..n |->
                    Cardinality({ j \in 1..n :
                        \/ key[j] - key[i] < 0
                        \/ (key[j] = key[i] /\ j < i) }) + 1 ], 1, n)
    IN SubSeq([ k \in 1..n |-> s[CHOOSE i \in 1..n : rank[i] = k] ], 1, n)

---------------------------------------------------------------------------
(* generate-pat-data.js: the main flow *)

\* NUM_PATIENTS, 75 in the source: the population of a run of the model
NUM_PATIENTS == 2

\* NUM_RECORDS, 250 in the source: the visits of a run of the model
NUM_RECORDS == 2

\* const patients = generatePatients()
GeneratePatients ==
    /\ ppc = "patients"
    /\ patients' = generatePatients(draws, NUM_PATIENTS)
    /\ ppc' = "visits"
    /\ UNCHANGED <<tz, finVars, draws, visitIdx, appointments>>

\* one iteration of the visit loop of generateAppointmentData
GenerateVisit ==
    /\ ppc = "visits"
    /\ visitIdx < NUM_RECORDS
    /\ appointments' = appointments \o visitRows(visitIdx, patients, draws, Len(appointments))
    /\ visitIdx' = visitIdx + 1
    /\ UNCHANGED <<tz, finVars, draws, ppc, patients>>

\* the visit loop ends: appointments.sort and return
SortAppointments ==
    /\ ppc = "visits"
    /\ visitIdx >= NUM_RECORDS
    /\ appointments' = sortAppointments(appointments)
    /\ ppc' = "done"
    /\ UNCHANGED <<tz, finVars, draws, visitIdx, patients>>

PatNext ==
    \/ GeneratePatients
    \/ GenerateVisit
    \/ SortAppointments

\* the start of generate-pat-data.js, before the draws are fixed
PatStart ==
    /\ rng = 0
    /\ fpc = "idle"
    /\ locIdx = 1
    /\ currentDate = 0
    /\ financialData = << >>
    /\ cmpIdx = 0
    /\ ppc = "patients"
    /\ visitIdx = 0
    /\ patients = << >>
    /\ appointments = << >>

---------------------------------------------------------------------------
(* Claims on the financial dataset *)

RevenueFields(r) ==
    << r.Revenue_Diagnostic, r.Revenue_Preventive, r.Revenue_Restorative,
       r.Revenue_Endodontic, r.Revenue_Periodontic, r.Revenue_Prosthodontic,
       r.Revenue_Oral_Surgery, r.Revenue_Orthodontic, r.Revenue_Implant,
       r.Revenue_Adjunctive >>

PayorFields(r) ==
    << r.Payor_Delta_Dental, r.Payor_Cigna_Dental, r.Payor_Aetna, r.Payor_MetLife,
       r.Payor_Guardian, r.Payor_United_Healthcare, r.Payor_Self_Pay >>

\* C1: in every monthly record the ten revenue-category fields sum to
\* Total_Revenue exactly.
C1_RevenueCategoriesSumToTotal ==
    \A i \in 1..Len(financialData) :
        SumSeq(RevenueFields(financialData[i])) = financialData[i].Total_Revenue

\* C2: in every monthly record the seven payor-mix fields sum to
\* Total_Revenue exactly.
C2_PayorMixSumsToTotal ==
    \A i \in 1..Len(financialData) :
        SumSeq(PayorFields(financialData[i])) = financialData[i].Total_Revenue

\* the months (year * 12 + month - 1) a location must have a record for
ExpectedMonths(location) ==
    LET open == location.opened_date
        lo == Max(open[1] * 12 + open[2] - 1, 2020 * 12)
        hi == 2025 * 12 + 3
    IN lo..hi

RecordsOf(id) == { i \in 1..Len(financialData) : financialData[i].Location_ID = id }

MonthOf(r) == r.Year * 12 + r.Month - 1

\* C3: in the returned dataset every location has exactly one record for
\* every month from max(opening month, 2020-01) through 2025-04 and no
\* other record, and the first record of LOC003 has Period 2020-01.
C3_MonthlyCoverage ==
    fpc = "done" =>
        /\ \A k \in 1..Len(locations) :
            LET ids == RecordsOf(locations[k].id)
            IN /\ \A i \in ids : MonthOf(financialData[i]) \in ExpectedMonths(locations[k])
               /\ \A mth \in ExpectedMonths(locations[k]) :
                    Cardinality({ i \in ids : MonthOf(financialData[i]) = mth }) = 1
        /\ \A i \in 1..Len(financialData) :
            \E k \in 1..Len(locations) : financialData[i].Location_ID = locations[k].id
        /\ LET first == FirstIndex(RecordsOf("LOC003"))
           IN first /= 0 /\ financialData[first].Period = <<2020, 1>>

\* the run has returned all 3 * 64 records in an environment east of UTC,
\* where the first record's Date string is the day before its month
C3_Witness ==
    /\ fpc = "done"
    /\ Len(financialData) = 192
    /\ financialData[1].Date = <<2019, 12, 31>>
    /\ financialData[1].Period = <<2020, 1>>

\* |e4 / 10^4 - num / den| <= 10^-4, for den /= 0
Within1e4(e4, num, den) ==
    LET qr == MulQR(Abs(num), 10000, Abs(den))
        m == IF (num < 0) = (den < 0) THEN e4 ELSE 0 - e4
    IN /\ m <= qr[1] + 1
       /\ m >= (IF qr[2] = 0 THEN qr[1] - 1 ELSE qr[1])

\* the delta field d is the change from previous to current within 1e-4
IsChange(d, current, previous) ==
    /\ d.type = "string"
    /\ d.finite
    /\ Within1e4(d.e4, current - previous, previous)

SameLocation(i, j) == financialData[i].Location_ID = financialData[j].Location_ID

\* record j is of the calendar month before record i
IsPrevMonth(j, i) == MonthOf(financialData[j]) = MonthOf(financialData[i]) - 1

\* record j is of the same month one year before record i
IsPrevYear(j, i) == MonthOf(financialData[j]) = MonthOf(financialData[i]) - 12

\* C8: after the comparative pass, a record with a same-location record
\* for the preceding month has Revenue_MoM_Change and EBITDA_MoM_Change
\* within 1e-4 of (cur - prev) / prev, and likewise the YoY fields against
\* the same-location record one year earlier.
C8_DeltasAreRelativeChanges ==
    fpc = "done" =>
        \A i, j \in 1..Len(financialData) :
            LET cur == financialData[i]
                prev == financialData[j]
            IN /\ (SameLocation(i, j) /\ IsPrevMonth(j, i)) =>
                    /\ IsChange(cur.Revenue_MoM_Change, cur.Total_Revenue, prev.Total_Revenue)
                    /\ IsChange(cur.EBITDA_MoM_Change, cur.EBITDA, prev.EBITDA)
               /\ (SameLocation(i, j) /\ IsPrevYear(j, i)) =>
                    /\ IsChange(cur.Revenue_YoY_Change, cur.Total_Revenue, prev.Total_Revenue)
                    /\ IsChange(cur.EBITDA_YoY_Change, cur.EBITDA, prev.EBITDA)

\* the pass is over and a January record holds a negative month-over-month
\* change against the December before it, and a year-over-year change
C8_Witness ==
    /\ fpc = "done"
    /\ \E i, j \in 1..Len(financialData) :
        /\ SameLocation(i, j)
        /\ financialData[i].Month = 1
        /\ financialData[j].Month = 12
        /\ IsPrevMonth(j, i)
        /\ financialData[i].Revenue_MoM_Change.type = "string"
        /\ financialData[i].Revenue_MoM_Change.e4 < 0
        /\ financialData[i].Revenue_YoY_Change.type = "string"
        /\ financialData[i].Revenue_YoY_Change.e4 /= 0

\* the place of record i among the records of its location
PlaceInLocation(i) == Cardinality({ j \in 1..i : SameLocation(i, j) })

\* C9: after the pass a record without a same-location record for the
\* preceding month keeps both MoM fields at the placeholder 0, one without
\* a same-location record a year earlier keeps both YoY fields at 0; these
\* are exactly each location's first record (MoM) and first 12 records
\* (YoY), and every other record has its deltas computed.
C9_NoPriorPeriodKeepsPlaceholder ==
    fpc = "done" =>
        \A i \in 1..Len(financialData) :
            LET cur == financialData[i]
                hasPrevMonth == \E j \in 1..Len(financialData) : SameLocation(i, j) /\ IsPrevMonth(j, i)
                hasPrevYear == \E j \in 1..Len(financialData) : SameLocation(i, j) /\ IsPrevYear(j, i)
            IN /\ ~hasPrevMonth =>
                    cur.Revenue_MoM_Change = Placeholder /\ cur.EBITDA_MoM_Change = Placeholder
               /\ ~hasPrevYear =>
                    cur.Revenue_YoY_Change = Placeholder /\ cur.EBITDA_YoY_Change = Placeholder
               /\ hasPrevMonth <=> PlaceInLocation(i) > 1
               /\ hasPrevYear <=> PlaceInLocation(i) > 12
               /\ hasPrevMonth =>
                    cur.Revenue_MoM_Change.type = "string" /\ cur.EBITDA_MoM_Change.type = "string"
               /\ hasPrevYear =>
                    cur.Revenue_YoY_Change.type = "string" /\ cur.EBITDA_YoY_Change.type = "string"

\* the pass is over; the first record of LOC002 has no prior period, and its
\* twelfth record has a month-over-month change but no year-over-year one
C9_Witness ==
    /\ fpc = "done"
    /\ \E i \in 1..Len(financialData) :
        /\ financialData[i].Location_ID = "LOC002"
        /\ PlaceInLocation(i) = 1
        /\ financialData[i].Revenue_MoM_Change = Placeholder
        /\ financialData[i + 11].Location_ID = "LOC002"
        /\ financialData[i + 11].Revenue_MoM_Change.type = "string"
        /\ financialData[i + 11].Revenue_YoY_Change = Placeholder
        /\ financialData[i + 12].Revenue_YoY_Change.type = "string"

---------------------------------------------------------------------------
(* Runs of generate-pat-data.js over bounded draws *)

\* steps of the grid of the visit-date draw
DateSteps == 16

\* steps of the grid of the charge draw
ChargeSteps == 16

\* steps of the grid of the coverage draw
CoverageSteps == 4

\* the draws (insured, insurer) of the six plans a patient can hold
InsuranceDraws ==
    { <<0, n>> : n \in Grid(Len(insuranceProviders) - 1) } \cup { <<Highest, 0>> }

\* one status draw for each appointment status
StatusDraws == { 0, (86 * RandDen) \div 100, (91 * RandDen) \div 100, Highest }

\* the draws (discount, discountRate): no discount, 10%, 20%, 30%
DiscountDraws == { <<Highest, 0>> } \cup { <<0, n>> : n \in Grid(3) }

\* registration dates over the seven years, January and December, the 1st
\* and the 28th; visit dates over the whole window; two statuses; every
\* UTC offset
DatesInit ==
    /\ PatStart
    /\ tz \in TzOffsets
    /\ draws \in
        { [LowestDraws EXCEPT !.regYear = y, !.regMonth = m, !.regDay = dd,
                              !.date = v, !.status = st] :
            y \in Grid(7), m \in {0, Highest}, dd \in {0, Highest},
            v \in Grid(DateSteps) \cup {Highest}, st \in {0, Highest} }

SpecVisitDates == DatesInit /\ [][PatNext]_vars

\* completed visits of every plan and procedure over the charge and
\* coverage grids, without discount
CoverageDraws ==
    { [LowestDraws EXCEPT !.insured = ins[1], !.insurer = ins[2],
                          !.common = Highest, !.index = ix,
                          !.charge = ch, !.coverage = cv, !.discount = Highest] :
        ins \in InsuranceDraws, ix \in Grid(Len(procedures)),
        ch \in Grid(ChargeSteps) \cup {Highest},
        cv \in Grid(CoverageSteps) \cup {Highest} }

\* completed visits of every plan and procedure over the discount and
\* payment draws, one to three procedures
PaymentDraws ==
    { [LowestDraws EXCEPT !.insured = ins[1], !.insurer = ins[2],
                          !.common = Highest, !.index = ix,
                          !.charge = ch, !.coverage = cv,
                          !.discount = dc[1], !.discountRate = dc[2],
                          !.paid = pd, !.count = ct] :
        ins \in InsuranceDraws, ix \in Grid(Len(procedures)),
        ch \in {0, Highest}, cv \in {0, Highest},
        dc \in DiscountDraws, pd \in {0, Highest}, ct \in {0, Highest} }

\* visits of every status and plan, the row draws at both ends
StatusDrawsOfRows ==
    { [LowestDraws EXCEPT !.insured = ins[1], !.insurer = ins[2],
                          !.status = st, !.count = ct,
                          !.charge = x, !.coverage = x, !.discount = x,
                          !.paid = x, !.plan = x, !.planCompleted = x,
                          !.claim = x] :
        ins \in InsuranceDraws, st \in StatusDraws,
        ct \in {0, Highest}, x \in {0, Highest} }

MoneyInit ==
    /\ PatStart
    /\ tz = 0
    /\ draws \in CoverageDraws \cup PaymentDraws \cup StatusDrawsOfRows

SpecVisitMoney == MoneyInit /\ [][PatNext]_vars

\* steps of the grid of the status draw
StatusSteps == 20

\* steps of the grid of the visit-date draw of the shape runs
ShapeDateSteps == 4

\* the status draw over a grid, on both sides of every cumulative
\* probability, and at its highest value
StatusGridDraws ==
    Grid(StatusSteps) \cup {Highest}
        \cup { (c * RandDen) \div 100 : c \in {85, 90, 97} }
        \cup { ((c * RandDen) \div 100) + 1 : c \in {85, 90, 97} }

\* date draws followed by the next larger value: two visits a few hours apart
CloseDateDraws == { n \in 0..(Highest - 1) : NextRandom(n) = n + 1 }

\* the insured draw at both ends and on both sides of 0.8
InsuredDraws == { 0, (80 * RandDen) \div 100, ((80 * RandDen) \div 100) + 1, Highest }

\* populations over the ages, plans and registration dates
PopulationDraws ==
    { [LowestDraws EXCEPT !.age = a, !.insured = ins, !.insurer = ix,
                          !.regYear = y, !.regMonth = m, !.regDay = dd] :
        a \in Grid(4) \cup {Highest}, ins \in InsuredDraws,
        ix \in Grid(Len(insuranceProviders) - 1) \cup {Highest},
        y \in Grid(7) \cup {Highest}, m \in {0, Highest}, dd \in {0, Highest} }

\* visits of every status and number of procedures over the visit dates
ShapeDraws ==
    { [LowestDraws EXCEPT !.status = st, !.count = ct, !.date = v] :
        st \in StatusGridDraws, ct \in Grid(3) \cup {Highest},
        v \in CloseDateDraws \cup Grid(ShapeDateSteps) \cup {Highest} }

ShapeInit ==
    /\ PatStart
    /\ tz \in TzOffsets
    /\ draws \in PopulationDraws \cup ShapeDraws

SpecVisitShape == ShapeInit /\ [][PatNext]_vars

\* steps of the grid of the charge draw of the runs on passed patients
PassedChargeSteps == 4

\* plan names of the patients passed to generateAppointmentData: one the
\* registry does not list, one it lists at the rate 0.75, and the sentinel
PassedPlans == {"Humana", "Aetna", "No Insurance"}

\* an array of patients holding the plan `plan`
withPlan(pats, plan) ==
    SubSeq([ i \in 1..Len(pats) |-> [pats[i] EXCEPT !.insurance_provider = plan] ],
           1, Len(pats))

\* completed visits of every procedure over the charge and coverage grids
PassedDraws ==
    { [LowestDraws EXCEPT !.common = Highest, !.index = ix,
                          !.charge = ch, !.coverage = cv, !.count = ct] :
        ix \in Grid(Len(procedures)),
        ch \in Grid(PassedChargeSteps) \cup {Highest},
        cv \in Grid(CoverageSteps) \cup {Highest},
        ct \in {0, Highest} }

\* generateAppointmentData(patients) called on an array of patients
PassedInit ==
    /\ tz = 0
    /\ rng = 0
    /\ fpc = "idle"
    /\ locIdx = 1
    /\ currentDate = 0
    /\ financialData = << >>
    /\ cmpIdx = 0
    /\ draws \in PassedDraws
    /\ ppc = "visits"
    /\ visitIdx = 0
    /\ appointments = << >>
    /\ patients \in { withPlan(generatePatients(draws, NUM_PATIENTS), plan) :
                        plan \in PassedPlans }

PassedNext ==
    \/ GenerateVisit
    \/ SortAppointments

SpecPassedPatients == PassedInit /\ [][PassedNext]_vars

\* steps of the grid of the visit-date draw of the runs on plans and claims
PlanDateSteps == 8

\* days before and after a change of daylight saving time looked at
TransitionDays == 15

\* the year whose changes of daylight saving time are looked at
TransitionYear == 2021

\* the instant date is within TransitionDays days of `change`, in the hour
\* before or after midnight UTC
NearChange(date, change) ==
    /\ date < change + TransitionDays * 24
    /\ date >= change - TransitionDays * 24
    /\ date % 24 \in {23, 0}

\* date draws of visits shortly before or after a change of daylight
\* saving time
TransitionDateDraws ==
    { n \in 0..Highest :
        \/ NearChange(randomDate(START_DATE, END_DATE, n), DstStart(TransitionYear))
        \/ NearChange(randomDate(START_DATE, END_DATE, n), DstEnd(TransitionYear)) }

\* the visit-date draws of the runs on plans and claims
PlanDateDraws == Grid(PlanDateSteps) \cup {Highest} \cup TransitionDateDraws

\* a draw compared with pct / 100: both ends and both sides of the threshold
ThresholdDraws(pct) == { 0, (pct * RandDen) \div 100, ((pct * RandDen) \div 100) + 1, Highest }

\* insured completed visits over the claim draws
ClaimDraws ==
    { [LowestDraws EXCEPT !.date = v, !.claim = cl, !.claimSplit = sp,
                          !.claimPayment = py] :
        v \in PlanDateDraws, cl \in ThresholdDraws(95), sp \in ThresholdDraws(50),
        py \in Grid(2) \cup {Highest} }

\* completed visits over the treatment-plan draws
PlanDraws ==
    { [LowestDraws EXCEPT !.date = v, !.plan = pl, !.planCompleted = pc,
                          !.planCreation = cr, !.planCompletion = co,
                          !.planRate = x, !.estimate = x, !.charge = x] :
        v \in PlanDateDraws, pl \in ThresholdDraws(30), pc \in {0, Highest},
        cr \in Grid(2) \cup {Highest}, co \in Grid(2) \cup {Highest},
        x \in {0, Highest} }

PlansInit ==
    /\ PatStart
    /\ tz \in TzOffsets
    /\ draws \in ClaimDraws \cup PlanDraws

SpecVisitPlans == PlansInit /\ [][PatNext]_vars

\* visits over the patient, location and provider selected, of every
\* number of procedures, completed or not, early or late
IdentityDraws ==
    { [LowestDraws EXCEPT !.patient = pt, !.location = lc, !.provider = pr,
                          !.count = ct, !.status = st, !.date = v] :
        pt \in Grid(4) \cup {Highest},
        lc \in Grid(Len(patLocations)) \cup {Highest},
        pr \in {0, RandDen \div 2, Highest},
        ct \in Grid(3) \cup {Highest},
        st \in {0, Highest}, v \in {0, Highest} }

IdentityInit ==
    /\ PatStart
    /\ tz \in TzOffsets
    /\ draws \in IdentityDraws

SpecVisitIdentity == IdentityInit /\ [][PatNext]_vars

---------------------------------------------------------------------------
(* Claims on the appointment rows *)

\* days since 1970-01-01 of a formatted date
DayOf(s) == DaysFromCivil(s[1], s[2], s[3])

\* the patient a row refers to
PatientOf(row) == patients[CHOOSE k \in 1..Len(patients) : patients[k].patient_id = row.Patient_ID]

Rows == { appointments[k] : k \in 1..Len(appointments) }

\* C4: every row's Date_of_Service is on or after the registration date
\* of its patient, on or after the global start date 2020-01-01, and on or
\* before the global end date 2025-04-01.
C4_ServiceDateWithinWindow ==
    \A row \in Rows :
        /\ DayOf(PatientOf(row).registration_date) <= DayOf(row.Date_of_Service)
        /\ DayOf(<<2020, 1, 1>>) <= DayOf(row.Date_of_Service)
        /\ DayOf(row.Date_of_Service) <= DayOf(<<2025, 4, 1>>)

\* C5: for every completed row of an insured patient,
\* 0.5 <= Insurance_Covered_Amount / Charged_Amount <= 0.95.
C5_EffectiveCoverageRate ==
    \A row \in Rows :
        (row.Appointment_Status = "Completed" /\ row.Insurance_Provider /= "No Insurance") =>
            /\ row.Charged_Amount > 0
            /\ 50 * row.Charged_Amount <= 100 * row.Insurance_Covered_Amount
            /\ 100 * row.Insurance_Covered_Amount <= 95 * row.Charged_Amount

\* the run has returned a completed Delta Dental row of the cheapest
\* procedure at its highest charge and highest coverage: 36 of 38, a rate
\* above 0.94
C5_Witness ==
    /\ ppc = "done"
    /\ \E row \in Rows :
        /\ row.Appointment_Status = "Completed"
        /\ row.Insurance_Provider = "Delta Dental"
        /\ row.Procedure_Code = "D0220"
        /\ row.Charged_Amount = 38
        /\ row.Insurance_Covered_Amount = 36

\* C6: for every completed row, Insurance_Covered_Amount +
\* Patient_Responsibility = Charged_Amount and Discount_Applied +
\* Out_of_Pocket = Patient_Responsibility.
C6_AmountsAddUp ==
    \A row \in Rows :
        row.Appointment_Status = "Completed" =>
            /\ row.Insurance_Covered_Amount + row.Patient_Responsibility = row.Charged_Amount
            /\ row.Discount_Applied + row.Out_of_Pocket = row.Patient_Responsibility

\* the run has returned a completed insured row with a discount whose
\* exact value ends in one half, and a completed discounted row left unpaid
C6_Witness ==
    /\ ppc = "done"
    /\ \E row \in Rows :
        /\ row.Appointment_Status = "Completed"
        /\ row.Insurance_Covered_Amount > 0
        /\ row.Discount_Applied > 0
        /\ row.Patient_Responsibility % 10 = 5
        /\ row.Out_of_Pocket > 0
    /\ \E row \in Rows :
        /\ row.Appointment_Status = "Completed"
        /\ row.Discount_Applied > 0
        /\ row.Payment_Status = "Outstanding"

\* C7: every row of a visit that is not Completed has Charged_Amount = 0
\* and every financial, payment, claim and treatment-plan field at its
\* zero or blank sentinel.
C7_NotCompletedRowsAreBlank ==
    \A row \in Rows :
        row.Appointment_Status /= "Completed" =>
            /\ row.Appointment_Status \in {"No-Show", "Canceled", "Rescheduled"}
            /\ row.Charged_Amount = 0
            /\ row.Insurance_Covered_Amount = 0
            /\ row.Patient_Responsibility = 0
            /\ row.Discount_Applied = 0
            /\ row.Out_of_Pocket = 0
            /\ row.Amount_Paid = 0
            /\ row.Payment_Method = ""
            /\ row.Payment_Status = ""
            /\ row.Insurance_Claim_Status = ""
            /\ row.Insurance_Claim_Submission_Date = << >>
            /\ row.Insurance_Claim_Payment_Date = << >>
            /\ row.Treatment_Plan_ID = << >>
            /\ row.Treatment_Plan_Creation_Date = << >>
            /\ row.Treatment_Plan_Completion_Date = << >>
            /\ row.Treatment_Plan_Completion_Rate = 0
            /\ row.Estimated_Total_Cost = 0

\* the run has returned a Rescheduled visit of three rows of an insured
\* patient, whose draws would give a completed row a treatment plan and a
\* paid claim
C7_Witness ==
    /\ ppc = "done"
    /\ draws.plan = 0
    /\ draws.claim = 0
    /\ \E row \in Rows :
        /\ row.Appointment_Status = "Rescheduled"
        /\ row.Insurance_Provider = "Guardian"
        /\ row.Procedure_ID = <<"PROC", 3>>

\* C10: for every completed row of a patient without insurance,
\* Insurance_Covered_Amount = 0, Patient_Responsibility = Charged_Amount
\* and the three claim fields are empty.
C10_NoInsuranceRow ==
    \A row \in Rows :
        (row.Appointment_Status = "Completed" /\ row.Insurance_Provider = "No Insurance") =>
            /\ row.Insurance_Covered_Amount = 0
            /\ row.Patient_Responsibility = row.Charged_Amount
            /\ row.Insurance_Claim_Status = ""
            /\ row.Insurance_Claim_Submission_Date = << >>
            /\ row.Insurance_Claim_Payment_Date = << >>

\* the run has returned a completed row of a patient without insurance
\* charged the highest amount of the catalog
C10_Witness ==
    /\ ppc = "done"
    /\ \E row \in Rows :
        /\ row.Appointment_Status = "Completed"
        /\ row.Insurance_Provider = "No Insurance"
        /\ row.Procedure_Code = "D8090"
        /\ row.Charged_Amount = 6820
        /\ row.Patient_Responsibility = 6820

\* the Visit_IDs of the visits generated so far
VisitIds == { <<"V", k>> : k \in 1..visitIdx }

\* the places of the rows of a visit
RowsOfVisit(id) == { k \in 1..Len(appointments) : appointments[k].Visit_ID = id }

\* C11: the rows carry exactly the Visit_IDs V000001..V of the visits
\* generated (V = NUM_RECORDS at the return), every visit has at least 1
\* and at most 3 rows whatever its status, and the row count is between V
\* and 3V.
C11_VisitsAndRowCounts ==
    /\ { appointments[k].Visit_ID : k \in 1..Len(appointments) } = VisitIds
    /\ \A id \in VisitIds : Cardinality(RowsOfVisit(id)) \in 1..3
    /\ Len(appointments) >= visitIdx
    /\ Len(appointments) <= 3 * visitIdx
    /\ ppc = "done" => visitIdx = NUM_RECORDS

\* the run has returned a visit of one row that is not completed and a
\* visit of two rows
C11_Witness ==
    /\ ppc = "done"
    /\ \E a, b \in VisitIds :
        /\ Cardinality(RowsOfVisit(a)) = 1
        /\ \A k \in RowsOfVisit(a) : appointments[k].Appointment_Status /= "Completed"
        /\ Cardinality(RowsOfVisit(b)) = 2

\* C12: the returned rows are in non-decreasing order of Date_of_Service,
\* rows of equal Date_of_Service are in the order of their generation
\* (increasing Procedure_ID), and the rows of one visit are adjacent.
C12_SortedByDateStable ==
    ppc = "done" =>
        \A i, j \in 1..Len(appointments) :
            i < j =>
                /\ DayOf(appointments[i].Date_of_Service) <= DayOf(appointments[j].Date_of_Service)
                /\ appointments[i].Date_of_Service = appointments[j].Date_of_Service =>
                        appointments[i].Procedure_ID[2] < appointments[j].Procedure_ID[2]
                /\ appointments[i].Visit_ID = appointments[j].Visit_ID =>
                        \A k \in i..j : appointments[k].Visit_ID = appointments[i].Visit_ID

\* the run has returned two visits of the same Date_of_Service, of three
\* and two rows
C12_Witness ==
    /\ ppc = "done"
    /\ Len(appointments) = 5
    /\ \A k \in 1..5 : appointments[k].Date_of_Service = appointments[1].Date_of_Service
    /\ appointments[3].Visit_ID = <<"V", 1>>
    /\ appointments[4].Visit_ID = <<"V", 2>>

---------------------------------------------------------------------------
(* Further claims on the financial dataset *)

ExpenseFields(r) ==
    << r.Labor_Clinical, r.Labor_Administrative, r.Supplies_Clinical,
       r.Supplies_Office, r.Rent_Lease, r.Utilities, r.Equipment_Costs,
       r.Marketing, r.Insurance, r.Professional_Fees, r.Continuing_Education,
       r.Lab_Fees, r.Software_IT, r.Travel, r.Miscellaneous >>

\* C13: in every monthly record Total_Expenses is exactly the sum of the
\* fifteen expense-category fields and EBITDA is Total_Revenue minus
\* Total_Expenses.
C13_ExpensesSumAndEbitda ==
    \A i \in 1..Len(financialData) :
        /\ financialData[i].Total_Expenses = SumSeq(ExpenseFields(financialData[i]))
        /\ financialData[i].EBITDA =
               financialData[i].Total_Revenue - financialData[i].Total_Expenses

\* the run has returned its 192 records, every one with fifteen positive
\* expense categories
C13_Witness ==
    /\ fpc = "done"
    /\ Len(financialData) = 192
    /\ \A i \in 1..Len(financialData) :
        \A k \in 1..15 : ExpenseFields(financialData[i])[k] > 0

\* a record with its four delta fields set back to the placeholder
WithoutDeltas(r) ==
    [r EXCEPT !.Revenue_MoM_Change = Placeholder,
              !.Revenue_YoY_Change = Placeholder,
              !.EBITDA_MoM_Change = Placeholder,
              !.EBITDA_YoY_Change = Placeholder]

\* every step of the comparative pass keeps the number of records, their
\* order, and every field of every record but the four delta fields
PassStepKeepsRecords ==
    fpc \in {"compare", "done"} =>
        /\ Len(financialData') = Len(financialData)
        /\ \A i \in 1..Len(financialData) :
            WithoutDeltas(financialData'[i]) = WithoutDeltas(financialData[i])

\* C14: the comparative pass changes only the four delta fields of the
\* monthly records: the number of records, their order and every other
\* field are the same before and after each of its steps.
C14_PassChangesOnlyDeltas == [][PassStepKeepsRecords]_vars

\* the pass is over and has written all four delta fields of a record
C14_Witness ==
    /\ fpc = "done"
    /\ \E i \in 1..Len(financialData) :
        /\ financialData[i].Revenue_MoM_Change /= Placeholder
        /\ financialData[i].Revenue_YoY_Change /= Placeholder
        /\ financialData[i].EBITDA_MoM_Change /= Placeholder
        /\ financialData[i].EBITDA_YoY_Change /= Placeholder

---------------------------------------------------------------------------
(* Further claims on the appointment rows *)

\* the names of the insurance registry
RegistryPlans == { insuranceProviders[k].name : k \in 1..Len(insuranceProviders) }

\* C15: a completed row of a patient whose plan is not in the insurance
\* registry is emitted with the covered amount of the base rate 0.75,
\* varied by 0.9..1.1 (exactly so for the first row, whose coverage draw
\* is the first of its call site), with the claim fields of an insured
\* row, and the run returns the rows of all its visits.
C15_UnknownPlanFallsBackTo75 ==
    /\ \A row \in Rows :
        (row.Appointment_Status = "Completed" /\ row.Insurance_Provider \notin RegistryPlans) =>
            /\ 1000 * row.Insurance_Covered_Amount >= 675 * row.Charged_Amount - 500
            /\ 1000 * row.Insurance_Covered_Amount <= 825 * row.Charged_Amount + 500
            /\ row.Procedure_ID = <<"PROC", 1>> =>
                    row.Insurance_Covered_Amount =
                        MulRoundDiv(row.Charged_Amount,
                                    75 * (9 * RandDen + 2 * draws.coverage),
                                    1000 * RandDen)
            /\ row.Patient_Responsibility = row.Charged_Amount - row.Insurance_Covered_Amount
            /\ row.Insurance_Claim_Status \in {"Paid", "Pending", "Denied"}
            /\ row.Insurance_Claim_Submission_Date = row.Date_of_Service
    /\ ppc = "done" => Len(appointments) >= NUM_RECORDS

\* the run has returned completed rows of a patient on the plan Humana,
\* the first one of the dearest procedure at the highest charge and
\* coverage
C15_Witness ==
    /\ ppc = "done"
    /\ \E row \in Rows :
        /\ row.Appointment_Status = "Completed"
        /\ row.Insurance_Provider = "Humana"
        /\ row.Procedure_ID = <<"PROC", 1>>
        /\ row.Procedure_Code = "D8090"
        /\ row.Charged_Amount = 6820
        /\ row.Insurance_Covered_Amount = 5626

\* C16: generatePatients returns NUM_PATIENTS patients of pairwise distinct
\* ids PAT0001.., each of an age in 18..85 and a registration date of
\* year 2018..2024, month 1..12, day 1..28; the plan is No Insurance when
\* the insured draw is not below 0.8 and otherwise one of the five plans
\* of the registry that are not No Insurance.
C16_PatientsWellFormed ==
    ppc /= "patients" =>
        /\ Len(patients) = NUM_PATIENTS
        /\ \A i \in 1..Len(patients) :
            /\ patients[i].patient_id = <<"PAT", i>>
            /\ patients[i].age \in 18..85
            /\ patients[i].registration_date[1] \in 2018..2024
            /\ patients[i].registration_date[2] \in 1..12
            /\ patients[i].registration_date[3] \in 1..28
            /\ IF Advance(draws.insured, i - 1) * 100 < 80 * RandDen
               THEN patients[i].insurance_provider \in
                        {"Delta Dental", "Cigna Dental", "Aetna", "MetLife", "Guardian"}
               ELSE patients[i].insurance_provider = "No Insurance"

\* generatePatients has returned a first patient aged 85, registered on
\* 2024-12-28 and insured by the last plan before the sentinel, on an
\* insured draw just below 0.8
C16_Witness ==
    /\ ppc = "visits"
    /\ draws.insured = (80 * RandDen) \div 100
    /\ patients[1].age = 85
    /\ patients[1].registration_date = <<2024, 12, 28>>
    /\ patients[1].insurance_provider = "Guardian"

\* the status of the bucket of the draw n / RandDen
StatusOfDraw(n) ==
    IF n * 100 <= 85 * RandDen THEN "Completed"
    ELSE IF n * 100 <= 90 * RandDen THEN "No-Show"
    ELSE IF n * 100 <= 97 * RandDen THEN "Canceled"
    ELSE "Rescheduled"

\* C17: the status of every row is the one of the bucket of the status
\* draw u of its visit: Completed for u <= .85, No-Show for .85 < u <= .90,
\* Canceled for .90 < u <= .97, Rescheduled above.
C17_StatusByCumulativeBuckets ==
    \A row \in Rows :
        /\ row.Appointment_Status \in {"Completed", "No-Show", "Canceled", "Rescheduled"}
        /\ row.Appointment_Status = StatusOfDraw(Advance(draws.status, row.Visit_ID[2] - 1))

\* the run has returned a first visit whose status draw is the first value
\* above .85, a No-Show
C17_Witness ==
    /\ ppc = "done"
    /\ draws.status = ((85 * RandDen) \div 100) + 1
    /\ \E row \in Rows :
        /\ row.Visit_ID = <<"V", 1>>
        /\ row.Appointment_Status = "No-Show"

\* C18: for every completed row of an insured patient the claim status is
\* Paid, Pending or Denied, the submission date is Date_of_Service, and
\* the payment date is filled exactly when the status is Paid, then 15 to
\* 45 days after Date_of_Service.
C18_ClaimFields ==
    \A row \in Rows :
        (row.Appointment_Status = "Completed" /\ row.Insurance_Provider /= "No Insurance") =>
            /\ row.Insurance_Claim_Status \in {"Paid", "Pending", "Denied"}
            /\ row.Insurance_Claim_Submission_Date = row.Date_of_Service
            /\ (row.Insurance_Claim_Payment_Date /= << >>) <=> (row.Insurance_Claim_Status = "Paid")
            /\ row.Insurance_Claim_Status = "Paid" =>
                (DayOf(row.Insurance_Claim_Payment_Date) - DayOf(row.Date_of_Service)) \in 15..45

\* C19: a completed row without a treatment plan has an empty plan id and
\* empty plan dates, a completion rate of 0 and an estimated cost equal to
\* the charge; a completed row with a plan has a creation date 0 to 90
\* days before Date_of_Service, a completion date exactly when the rate is
\* 100, then 0 to 180 days after Date_of_Service, otherwise a rate in
\* 10..90, and an estimated cost between the charge and twice the charge.
C19_TreatmentPlanFields ==
    \A row \in Rows :
        row.Appointment_Status = "Completed" =>
            IF row.Treatment_Plan_ID = << >>
            THEN /\ row.Treatment_Plan_Creation_Date = << >>
                 /\ row.Treatment_Plan_Completion_Date = << >>
                 /\ row.Treatment_Plan_Completion_Rate = 0
                 /\ row.Estimated_Total_Cost = row.Charged_Amount
            ELSE /\ row.Treatment_Plan_Creation_Date /= << >>
                 /\ (DayOf(row.Date_of_Service) - DayOf(row.Treatment_Plan_Creation_Date)) \in 0..90
                 /\ (row.Treatment_Plan_Completion_Date /= << >>) <=>
                        (row.Treatment_Plan_Completion_Rate = 100)
                 /\ row.Treatment_Plan_Completion_Rate = 100 =>
                        (DayOf(row.Treatment_Plan_Completion_Date) - DayOf(row.Date_of_Service)) \in 0..180
                 /\ row.Treatment_Plan_Completion_Rate /= 100 =>
                        row.Treatment_Plan_Completion_Rate \in 10..90
                 /\ row.Charged_Amount <= row.Estimated_Total_Cost
                 /\ row.Estimated_Total_Cost <= 2 * row.Charged_Amount

---------------------------------------------------------------------------
(* Claims on the financial dataset at the ends of the draws *)

\* a delta field is the placeholder or the string of a finite number
IsFiniteDelta(d) == d.finite

\* C20: in every monthly record Total_Revenue, Total_Patient_Visits,
\* Marketing, Treatment_Plans_Presented, Treatment_Plans_Accepted and
\* EBITDA are strictly positive, and no delta field is NaN or infinite.
C20_DivisorsArePositive ==
    \A i \in 1..Len(financialData) :
        /\ financialData[i].Total_Revenue > 0
        /\ financialData[i].Total_Patient_Visits > 0
        /\ financialData[i].Marketing > 0
        /\ financialData[i].Treatment_Plans_Presented > 0
        /\ financialData[i].Treatment_Plans_Accepted > 0
        /\ financialData[i].EBITDA > 0
        /\ IsFiniteDelta(financialData[i].Revenue_MoM_Change)
        /\ IsFiniteDelta(financialData[i].Revenue_YoY_Change)
        /\ IsFiniteDelta(financialData[i].EBITDA_MoM_Change)
        /\ IsFiniteDelta(financialData[i].EBITDA_YoY_Change)

\* the run has returned, at the lowest revenue draws and the highest
\* expense draws, the record of the smallest location for a winter month
\* with its deltas computed
C20_Witness ==
    /\ fpc = "done"
    /\ draws[1] = 0
    /\ draws[14] = RandDen - 1
    /\ draws[38] = RandDen - 1
    /\ draws[51] = 0
    /\ \E i \in 1..Len(financialData) :
        /\ financialData[i].Location_ID = "LOC003"
        /\ financialData[i].Period = <<2021, 1>>
        /\ financialData[i].EBITDA > 0
        /\ financialData[i].EBITDA_YoY_Change.type = "string"

---------------------------------------------------------------------------
(* Claims on both pipelines *)

\* C21: in every emitted record the calendar fields agree with the date
\* string: the year and month of Date equal Year and Month (and Period is
\* Year-Month) in a monthly record, and the year and month of
\* Date_of_Service equal Year and Month in an appointment row.
C21_CalendarFieldsAgree ==
    /\ \A i \in 1..Len(financialData) :
        /\ financialData[i].Date[1] = financialData[i].Year
        /\ financialData[i].Date[2] = financialData[i].Month
        /\ financialData[i].Period = <<financialData[i].Year, financialData[i].Month>>
    /\ \A i \in 1..Len(appointments) :
        /\ appointments[i].Date_of_Service[1] = appointments[i].Year
        /\ appointments[i].Date_of_Service[2] = appointments[i].Month

---------------------------------------------------------------------------
(* Claims on the money amounts and the identifiers of the rows *)

\* the amounts of a row are non-negative and ordered
AmountsOrdered(r) ==
    /\ 0 <= r.Insurance_Covered_Amount
    /\ r.Insurance_Covered_Amount <= r.Charged_Amount
    /\ 0 <= r.Discount_Applied
    /\ r.Discount_Applied <= r.Patient_Responsibility
    /\ r.Patient_Responsibility <= r.Charged_Amount
    /\ 0 <= r.Amount_Paid
    /\ r.Amount_Paid <= r.Out_of_Pocket
    /\ r.Out_of_Pocket <= r.Patient_Responsibility

\* C22 as stated: in every row the amounts are non-negative and ordered,
\* Amount_Paid = Out_of_Pocket exactly when Payment_Status is 'Paid', and
\* Amount_Paid = 0 with an empty Payment_Method when it is 'Outstanding'.
C22_AmountsOrderedPaidExactly ==
    \A i \in 1..Len(appointments) :
        /\ AmountsOrdered(appointments[i])
        /\ (appointments[i].Amount_Paid = appointments[i].Out_of_Pocket)
               <=> (appointments[i].Payment_Status = "Paid")
        /\ appointments[i].Payment_Status = "Outstanding"
               => /\ appointments[i].Amount_Paid = 0
                  /\ appointments[i].Payment_Method = ""

\* C22: in every row the amounts are non-negative and ordered; in a row of
\* a completed visit Payment_Status is 'Paid' or 'Outstanding', Amount_Paid
\* = Out_of_Pocket exactly when it is 'Paid', and Amount_Paid = 0 with an
\* empty Payment_Method when it is 'Outstanding'; in a row of a visit not
\* completed Amount_Paid = Out_of_Pocket = 0 and Payment_Status is empty.
C22_AmountsOrderedPaidWhenCompleted ==
    \A i \in 1..Len(appointments) :
        /\ AmountsOrdered(appointments[i])
        /\ appointments[i].Appointment_Status = "Completed"
               => /\ appointments[i].Payment_Status \in {"Paid", "Outstanding"}
                  /\ (appointments[i].Amount_Paid = appointments[i].Out_of_Pocket)
                         <=> (appointments[i].Payment_Status = "Paid")
                  /\ appointments[i].Payment_Status = "Outstanding"
                         => /\ appointments[i].Amount_Paid = 0
                            /\ appointments[i].Payment_Method = ""
        /\ appointments[i].Appointment_Status # "Completed"
               => /\ appointments[i].Amount_Paid = 0
                  /\ appointments[i].Out_of_Pocket = 0
                  /\ appointments[i].Payment_Status = ""

\* an insured row with a discount left outstanding, beside a paid row
C22_Witness ==
    /\ ppc = "done"
    /\ \E i \in 1..Len(appointments) :
        /\ appointments[i].Payment_Status = "Outstanding"
        /\ appointments[i].Insurance_Covered_Amount > 0
        /\ appointments[i].Discount_Applied > 0
        /\ appointments[i].Out_of_Pocket > 0
        /\ appointments[i].Amount_Paid = 0
    /\ \E i \in 1..Len(appointments) :
        /\ appointments[i].Payment_Status = "Paid"
        /\ appointments[i].Amount_Paid > 0

\* C23: Procedure_ID is unique across the rows; the rows sharing a
\* Visit_ID carry the same Patient_ID, Location_ID, Provider_ID,
\* Date_of_Service and Appointment_Status; and the patient, location and
\* provider of every row are entries of the population and the registries.
C23_IdentifiersConsistent ==
    /\ \A i, j \in 1..Len(appointments) :
        appointments[i].Procedure_ID = appointments[j].Procedure_ID => i = j
    /\ \A i, j \in 1..Len(appointments) :
        appointments[i].Visit_ID = appointments[j].Visit_ID
            => /\ appointments[i].Patient_ID = appointments[j].Patient_ID
               /\ appointments[i].Location_ID = appointments[j].Location_ID
               /\ appointments[i].Provider_ID = appointments[j].Provider_ID
               /\ appointments[i].Date_of_Service = appointments[j].Date_of_Service
               /\ appointments[i].Appointment_Status = appointments[j].Appointment_Status
    /\ \A i \in 1..Len(appointments) :
        /\ \E k \in 1..Len(patients) :
            appointments[i].Patient_ID = patients[k].patient_id
        /\ \E k \in 1..Len(patLocations) :
            appointments[i].Location_ID = patLocations[k].id
        /\ \E k \in 1..Len(providers) :
            appointments[i].Provider_ID = providers[k].id

\* the sorted rows of two visits of several procedures each, the later
\* visit first, one of them of the last patient, location and provider
C23_Witness ==
    /\ ppc = "done"
    /\ Len(appointments) >= 4
    /\ appointments[1].Visit_ID = <<"V", 2>>
    /\ appointments[Len(appointments)].Visit_ID = <<"V", 1>>
    /\ appointments[Len(appointments) - 1].Visit_ID = <<"V", 1>>
    /\ appointments[Len(appointments)].Patient_ID = patients[Len(patients)].patient_id
    /\ appointments[Len(appointments)].Location_ID = patLocations[Len(patLocations)].id
    /\ appointments[Len(appointments)].Provider_ID = providers[Len(providers)].id
    /\ appointments[1].Patient_ID # appointments[Len(appointments)].Patient_ID

===========================================================================
